---- MODULE Spec2Model ----
(***************************************************************************)
(* Model of asyncgit's AsyncFetch (src/asyncgit/src/fetch.rs): the caller  *)
(* thread (request / is_pending / last_result / progress and the receive   *)
(* side of the notification channel), the thread spawned by request() for  *)
(* every accepted request (the closure around threaded_fetch), and the     *)
(* progress receiver thread started by threaded_fetch.                     *)
(*                                                                         *)
(* Every step of a thread is one lock-protected access or one channel      *)
(* operation, so threads interleave exactly where the Mutexes and channels *)
(* of the code let them.                                                   *)
(***************************************************************************)
EXTENDS Integers, Sequences, FiniteSets, TLC

\* ------------------------------------------------------------------ bounds
\* number of request() calls that install a FetchState (spawned threads)
MaxCycles == 2
\* number of progress events the external fetch calls produce, all together
MaxEvents == 1

Cycles == 1..MaxCycles

\* ------------------------------------------------------------------ values
\* Option<T>: None, Some(x)
None == <<>>
Some(x) == <<x>>
is_some_never(o) == FALSE
is_some(o) == o /= None
unwrap(o) == o[1]

\* FetchRequest values handed to request()
FetchRequests ==
    { [remote |-> "origin", branch |-> b] : b \in {"main", "dev"} }

\* FetchState { request }
FetchState(params) == [request |-> params]

\* Result<usize> of the external fetch call: Ok(bytes) or Err(e)
Ok(bytes) == [ok |-> TRUE, bytes |-> bytes, err |-> "-"]
Err(e) == [ok |-> FALSE, bytes |-> 0, err |-> e]
FetchResults == {Ok(1500), Err("Auth")}

\* Display text of an error value (e.to_string())
to_string(e) ==
    CASE e = "Auth" -> "auth failed"
      [] e = "Network" -> "network unreachable"
      [] OTHER -> "error"

\* ProgressNotification values travelling on the progress channel of cycle i.
\* cycle and seq identify the event; Done is the termination sentinel.
Transfer(i, k) == [kind |-> "Transfer", cycle |-> i, seq |-> k]
Done(i) == [kind |-> "Done", cycle |-> i, seq |-> 0]
is_done(ev) == ev.kind = "Done"

\* AsyncGitNotification::Fetch as it sits on the notification channel.  The
\* value on the wire is only the kind; from and cycle record which thread put
\* it there and are never read by the program.
Fetch(who, i) == [kind |-> "Fetch", from |-> who, cycle |-> i]

\* The three Mutexes of AsyncFetch, named after the fields they guard
Locks == {"state", "last_result", "progress"}

\* The threads that lock them, and the holder of a Mutex nobody has locked
CallerThread == <<"caller", 0>>
RunnerThread(i) == <<"runner", i>>
RelayThread(i) == <<"relay", i>>
Free == <<"free", 0>>

\* The holder of a poisoned Mutex: a thread panicked with its guard, and every
\* lock() on it returns Err from then on
Poisoned == <<"poisoned", 0>>

\* ------------------------------------------------------------------ state
VARIABLES
    state,        \* AsyncFetch.state: Option<FetchState>
    last_result,  \* AsyncFetch.last_result: Option<(usize, String)>
    progress,     \* AsyncFetch.progress: Option<ProgressNotification>
    chan,         \* notification channel (sender -> the caller's receiver)
    rxAlive,      \* the receiving side of the notification channel exists
    caller,       \* caller thread: position, parameters of the running call,
                  \* return value of the last call, notification it reacts to
    nspawned,     \* threads spawned by request() so far
    runner,       \* per spawned thread: position and locals
    relay,        \* per spawned thread: its progress receiver thread
    pch,          \* per spawned thread: its progress channel
    nsent,        \* notifications the closures have put on chan so far
    nevents,      \* progress events the fetch calls have produced so far
    resultOf,     \* cycle whose thread wrote last_result last (0: nobody)
    lock          \* per Mutex: the thread holding its guard

vars == <<state, last_result, progress, chan, rxAlive, caller, nspawned,
          runner, relay, pch, nsent, nevents, resultOf, lock>>

shared == <<state, last_result, progress>>
threads == <<runner, relay, pch>>

\* ------------------------------------------------------------------ Init
InitCaller ==
    [pc |-> "idle", params |-> None, ret |-> "none", effect |-> "none",
     got |-> None]

InitRunner ==
    [pc |-> "unspawned", params |-> None, res |-> None, produced |-> 0,
     tf |-> "none", wrote |-> FALSE, cleared |-> FALSE]

InitRelay == [pc |-> "unspawned", cur |-> None, forwarded |-> 0]

\* AsyncFetch::new
Init ==
    /\ state = None
    /\ last_result = None
    /\ progress = None
    /\ chan = <<>>
    /\ rxAlive = TRUE
    /\ caller = InitCaller
    /\ nspawned = 0
    /\ runner = [i \in Cycles |-> InitRunner]
    /\ relay = [i \in Cycles |-> InitRelay]
    /\ pch = [i \in Cycles |-> <<>>]
    /\ nsent = 0
    /\ nevents = 0
    /\ resultOf = 0
    /\ lock = [l \in Locks |-> Free]

\* ------------------------------------------------------------------ AsyncFetch
\* A function body of the form { let mut x = m.lock()?; <access> }: thread t
\* gets the guard of Mutex l, unless another thread holds it, and the guard is
\* dropped where the body ends.  The lock() call may have returned in an
\* earlier step of its own (lock_acquire below).
Locked(t, l) ==
    /\ lock[l] \in {Free, t}
    /\ lock' = [lock EXCEPT ![l] = Free]

is_pending_never == FALSE

\* is_pending(): state.is_some() under the state lock
is_pending == is_some(state)

set_request_default(st, params) ==
    IF is_some(st)
    THEN [ret |-> "Err", state |-> st]
    ELSE [ret |-> "Ok",
          state |-> Some(FetchState([remote |-> "", branch |-> ""]))]

set_request_overwrite(st, params) ==
    [ret |-> "Ok", state |-> Some(FetchState(params))]

\* set_request(): refuses when a FetchState is installed, installs otherwise.
\* The value is the Result and the content of the state Mutex afterwards.
set_request(st, params) ==
    IF is_some(st)
    THEN [ret |-> "Err", state |-> st]
    ELSE [ret |-> "Ok", state |-> Some(FetchState(params))]

\* clear_request(): *state = None
clear_request == None

set_result_without_text(res) == Some(<<res.bytes, "">>)

\* set_result(): what is stored in last_result for a fetch result
set_result(res) ==
    IF res.ok
    THEN Some(<<res.bytes, "">>)
    ELSE Some(<<0, to_string(res.err)>>)

\* RemoteProgress::set_progress(&progress, value): *progress = value
set_progress(value) == value

\* ------------------------------------------------------------------ caller
request_check_cancels(params) ==
    /\ caller.pc = "idle"
    /\ Locked(CallerThread, "state")
    /\ is_pending \/ nspawned < MaxCycles
    /\ state' = IF is_pending THEN None ELSE state
    /\ caller' = IF is_pending
                 THEN [caller EXCEPT !.ret = "Ok", !.effect = "noop"]
                 ELSE [caller EXCEPT !.pc = "set_request",
                                     !.params = Some(params),
                                     !.ret = "none", !.effect = "none"]
    /\ UNCHANGED <<last_result, progress, chan, rxAlive, nspawned, threads,
                   nsent, nevents, resultOf>>

\* request(), first step: the is_pending() check and the early return.
request_check(params) ==
    /\ caller.pc = "idle"
    /\ Locked(CallerThread, "state")
    /\ is_pending \/ nspawned < MaxCycles
    /\ caller' = IF is_pending
                 THEN [caller EXCEPT !.ret = "Ok", !.effect = "noop"]
                 ELSE [caller EXCEPT !.pc = "set_request",
                                     !.params = Some(params),
                                     !.ret = "none", !.effect = "none"]
    /\ UNCHANGED <<shared, chan, rxAlive, nspawned, threads, nsent, nevents, resultOf>>

request_install_resets_result ==
    /\ caller.pc = "set_request"
    /\ Locked(CallerThread, "state")
    /\ LET r == set_request(state, unwrap(caller.params))
       IN /\ state' = r.state
          /\ last_result' = IF r.ret = "Err" THEN last_result ELSE None
          /\ caller' = IF r.ret = "Err"
                       THEN [caller EXCEPT !.pc = "idle", !.params = None,
                                           !.ret = "Err", !.effect = "busy"]
                       ELSE [caller EXCEPT !.pc = "set_progress"]
    /\ UNCHANGED <<progress, chan, rxAlive, nspawned,
                   threads, nsent, nevents, resultOf>>

\* request(), self.set_request(&params)?
request_install ==
    /\ caller.pc = "set_request"
    /\ Locked(CallerThread, "state")
    /\ LET r == set_request(state, unwrap(caller.params))
       IN /\ state' = r.state
          /\ caller' = IF r.ret = "Err"
                       THEN [caller EXCEPT !.pc = "idle", !.params = None,
                                           !.ret = "Err", !.effect = "busy"]
                       ELSE [caller EXCEPT !.pc = "set_progress"]
    /\ UNCHANGED <<last_result, progress, chan, rxAlive, nspawned,
                   threads, nsent, nevents, resultOf>>

request_reset_progress_skipped ==
    /\ caller.pc = "set_progress"
    /\ Locked(CallerThread, "progress")
    /\ caller' = [caller EXCEPT !.pc = "spawn"]
    /\ UNCHANGED <<shared, chan, rxAlive, nspawned, threads, nsent, nevents,
                   resultOf>>

\* request(), RemoteProgress::set_progress(&self.progress, None)?  The ?
\* returns the error of a lock() on a poisoned Mutex.
request_reset_progress ==
    /\ caller.pc = "set_progress"
    /\ IF lock["progress"] = Poisoned
       THEN /\ caller' = [caller EXCEPT !.pc = "idle", !.params = None,
                                        !.ret = "Err", !.effect = "lock"]
            /\ UNCHANGED <<lock, progress>>
       ELSE /\ Locked(CallerThread, "progress")
            /\ progress' = set_progress(None)
            /\ caller' = [caller EXCEPT !.pc = "spawn"]
    /\ UNCHANGED <<state, last_result, chan, rxAlive, nspawned,
                   threads, nsent, nevents, resultOf>>

\* request(), thread::spawn(..) and the final Ok(())
request_spawn ==
    /\ caller.pc = "spawn"
    /\ nspawned' = nspawned + 1
    /\ runner' = [runner EXCEPT ![nspawned + 1] =
                     [InitRunner EXCEPT !.pc = "start",
                                        !.params = caller.params]]
    /\ caller' = [caller EXCEPT !.pc = "idle", !.params = None,
                                !.ret = "Ok", !.effect = "started"]
    /\ UNCHANGED <<lock, shared, chan, rxAlive, relay, pch, nsent, nevents, resultOf>>

\* The caller takes the next notification off the channel ...
recv_notification ==
    /\ caller.pc = "idle"
    /\ rxAlive
    /\ chan /= <<>>
    /\ chan' = Tail(chan)
    /\ caller' = [caller EXCEPT !.pc = "poll_pending",
                                !.got = Some(Head(chan))]
    /\ UNCHANGED <<lock, shared, rxAlive, nspawned, threads, nsent, nevents, resultOf>>

\* ... and reacts by polling is_pending(), which returns is_pending as it
\* is in the state this step is taken from ...
poll_is_pending ==
    /\ caller.pc = "poll_pending"
    /\ Locked(CallerThread, "state")
    /\ caller' = [caller EXCEPT !.pc = "poll_result"]
    /\ UNCHANGED <<shared, chan, rxAlive, nspawned, threads, nsent,
                   nevents, resultOf>>

\* ... and last_result(), which returns last_result as it is in the state
\* this step is taken from.
poll_last_result ==
    /\ caller.pc = "poll_result"
    /\ Locked(CallerThread, "last_result")
    /\ caller' = [caller EXCEPT !.pc = "idle", !.got = None]
    /\ UNCHANGED <<shared, chan, rxAlive, nspawned, threads, nsent,
                   nevents, resultOf>>

\* The owner of the notification channel drops its Receiver: from then on
\* every send on the channel fails.
drop_receiver ==
    /\ caller.pc = "idle"
    /\ rxAlive
    /\ rxAlive' = FALSE
    /\ chan' = <<>>
    /\ UNCHANGED <<lock, shared, caller, nspawned, threads, nsent, nevents, resultOf>>

\* ------------------------------------------------------------------ spawned thread
threaded_fetch_start_sends_done(i) ==
    /\ runner[i].pc = "start"
    /\ runner' = [runner EXCEPT ![i].pc = "fetch"]
    /\ relay' = [relay EXCEPT ![i].pc = "recv"]
    /\ pch' = [pch EXCEPT ![i] = <<Done(i)>>]
    /\ UNCHANGED <<lock, shared, chan, rxAlive, caller, nspawned, nsent,
                   nevents, resultOf>>

\* threaded_fetch: unbounded() and RemoteProgress::spawn_receiver_thread(..)
threaded_fetch_start(i) ==
    /\ runner[i].pc = "start"
    /\ runner' = [runner EXCEPT ![i].pc = "fetch"]
    /\ relay' = [relay EXCEPT ![i].pc = "recv"]
    /\ pch' = [pch EXCEPT ![i] = <<>>]
    /\ UNCHANGED <<lock, shared, chan, rxAlive, caller, nspawned, nsent,
                   nevents, resultOf>>

\* The external fetch(..) reports progress on progress_sender.  A send to a
\* channel whose receiver is gone is lost.
fetch_progress(i) ==
    /\ runner[i].pc = "fetch"
    /\ nevents < MaxEvents
    /\ nevents' = nevents + 1
    /\ runner' = [runner EXCEPT ![i].produced = @ + 1]
    /\ pch' = [pch EXCEPT ![i] =
                  IF relay[i].pc = "panicked"
                  THEN @
                  ELSE Append(@, Transfer(i, runner[i].produced + 1))]
    /\ UNCHANGED <<lock, shared, chan, rxAlive, caller, nspawned, relay, nsent,
                   resultOf>>

\* The external fetch(..) returns res.
fetch_return(i, res) ==
    /\ runner[i].pc = "fetch"
    /\ runner' = [runner EXCEPT ![i].pc = "send_done", ![i].res = Some(res)]
    /\ UNCHANGED <<lock, shared, chan, rxAlive, caller, nspawned, relay, pch,
                   nsent, nevents, resultOf>>

\* threaded_fetch: progress_sender.send(ProgressNotification::Done)?
\* The send fails when the receiver thread is gone.
threaded_fetch_send_done(i) ==
    /\ runner[i].pc = "send_done"
    /\ IF relay[i].pc = "panicked"
       THEN /\ runner' = [runner EXCEPT ![i].pc = "err_clear", ![i].tf = "Err"]
            /\ pch' = pch
       ELSE /\ runner' = [runner EXCEPT ![i].pc = "join"]
            /\ pch' = [pch EXCEPT ![i] = Append(@, Done(i))]
    /\ UNCHANGED <<lock, shared, chan, rxAlive, caller, nspawned, relay,
                   nsent, nevents, resultOf>>

threaded_fetch_join_nowait(i) ==
    /\ runner[i].pc = "join"
    /\ runner' = [runner EXCEPT
                     ![i].pc = IF relay[i].pc = "panicked"
                               THEN "err_clear" ELSE "set_result",
                     ![i].tf = IF relay[i].pc = "panicked" THEN "Err" ELSE @]
    /\ UNCHANGED <<lock, shared, chan, rxAlive, caller, nspawned, relay, pch,
                   nsent, nevents, resultOf>>

threaded_fetch_join_clears(i) ==
    /\ runner[i].pc = "join"
    /\ relay[i].pc \in {"exited", "panicked"}
    /\ state' = clear_request
    /\ runner' = [runner EXCEPT
                     ![i].pc = IF relay[i].pc = "exited"
                               THEN "set_result" ELSE "err_clear",
                     ![i].tf = IF relay[i].pc = "exited" THEN @ ELSE "Err"]
    /\ UNCHANGED <<lock, last_result, progress, chan, rxAlive, caller, nspawned,
                   relay, pch, nsent, nevents, resultOf>>

\* threaded_fetch: handle.join()?  Returns once the receiver thread has
\* ended, with Err when it ended by a panic.
threaded_fetch_join(i) ==
    /\ runner[i].pc = "join"
    /\ relay[i].pc \in {"exited", "panicked"}
    /\ runner' = [runner EXCEPT
                     ![i].pc = IF relay[i].pc = "exited"
                               THEN "set_result" ELSE "err_clear",
                     ![i].tf = IF relay[i].pc = "exited" THEN @ ELSE "Err"]
    /\ UNCHANGED <<lock, shared, chan, rxAlive, caller, nspawned, relay, pch,
                   nsent, nevents, resultOf>>

threaded_fetch_set_result_skipped(i) ==
    /\ runner[i].pc = "set_result"
    /\ Locked(RunnerThread(i), "last_result")
    /\ runner' = [runner EXCEPT ![i].pc = "clear", ![i].wrote = TRUE]
    /\ UNCHANGED <<shared, chan, rxAlive, caller, nspawned, relay, pch, nsent,
                   nevents, resultOf>>

threaded_fetch_set_result_keeps_guard(i) ==
    /\ runner[i].pc = "set_result"
    /\ lock["last_result"] \in {Free, RunnerThread(i)}
    /\ lock' = [lock EXCEPT !["last_result"] = RunnerThread(i)]
    /\ last_result' = set_result(unwrap(runner[i].res))
    /\ resultOf' = i
    /\ runner' = [runner EXCEPT ![i].pc = "clear", ![i].wrote = TRUE]
    /\ UNCHANGED <<state, progress, chan, rxAlive, caller, nspawned,
                   relay, pch, nsent, nevents>>

\* threaded_fetch: Self::set_result(arc_res, res)?
threaded_fetch_set_result(i) ==
    /\ runner[i].pc = "set_result"
    /\ Locked(RunnerThread(i), "last_result")
    /\ last_result' = set_result(unwrap(runner[i].res))
    /\ resultOf' = i
    /\ runner' = [runner EXCEPT ![i].pc = "clear", ![i].wrote = TRUE]
    /\ UNCHANGED <<state, progress, chan, rxAlive, caller, nspawned,
                   relay, pch, nsent, nevents>>

threaded_fetch_clear_skipped(i) ==
    /\ runner[i].pc = "clear"
    /\ Locked(RunnerThread(i), "state")
    /\ runner' = [runner EXCEPT ![i].pc = "notify", ![i].tf = "Ok"]
    /\ UNCHANGED <<shared, chan, rxAlive, caller, nspawned, relay, pch, nsent,
                   nevents, resultOf>>

\* threaded_fetch: Self::clear_request(arc_state)? and Ok(())
threaded_fetch_clear(i) ==
    /\ runner[i].pc = "clear"
    /\ Locked(RunnerThread(i), "state")
    /\ state' = clear_request
    /\ runner' = [runner EXCEPT ![i].pc = "notify", ![i].tf = "Ok",
                                ![i].cleared = TRUE]
    /\ UNCHANGED <<last_result, progress, chan, rxAlive, caller,
                   nspawned, relay, pch, nsent, nevents, resultOf>>

closure_err_clear_skipped(i) ==
    /\ runner[i].pc = "err_clear"
    /\ Locked(RunnerThread(i), "state")
    /\ runner' = [runner EXCEPT ![i].pc = "notify"]
    /\ UNCHANGED <<shared, chan, rxAlive, caller, nspawned, relay, pch, nsent,
                   nevents, resultOf>>

\* closure, if let Err(e) = res: Self::clear_request(&arc_state).expect(..)
closure_err_clear(i) ==
    /\ runner[i].pc = "err_clear"
    /\ Locked(RunnerThread(i), "state")
    /\ state' = clear_request
    /\ runner' = [runner EXCEPT ![i].pc = "notify", ![i].cleared = TRUE]
    /\ UNCHANGED <<last_result, progress, chan, rxAlive, caller,
                   nspawned, relay, pch, nsent, nevents, resultOf>>

closure_notify_twice(i) ==
    /\ runner[i].pc = "notify"
    /\ rxAlive
    /\ chan' = chan \o <<Fetch("closure", i), Fetch("closure", i)>>
    /\ nsent' = nsent + 2
    /\ runner' = [runner EXCEPT ![i] = [InitRunner EXCEPT !.pc = "done"]]
    /\ UNCHANGED <<lock, shared, rxAlive, caller, nspawned, relay, pch, nevents,
                   resultOf>>

\* closure: sender.send(AsyncGitNotification::Fetch).expect("notification error")
\* and the end of the thread: its locals go with it.
closure_notify(i) ==
    /\ runner[i].pc = "notify"
    /\ IF rxAlive
       THEN /\ chan' = Append(chan, Fetch("closure", i))
            /\ nsent' = nsent + 1
            /\ runner' = [runner EXCEPT ![i] = [InitRunner EXCEPT !.pc = "done"]]
       ELSE /\ chan' = chan
            /\ nsent' = nsent
            /\ runner' = [runner EXCEPT
                             ![i] = [InitRunner EXCEPT !.pc = "panicked"]]
    /\ UNCHANGED <<lock, shared, rxAlive, caller, nspawned, relay, pch, nevents,
                   resultOf>>

\* ------------------------------------------------------------------ receiver thread
\* RemoteProgress::spawn_receiver_thread, loop body: receiver.recv() and
\* set_progress(&progress, Some(update)), a failure of which is fatal to the
\* thread
relay_recv(i) ==
    /\ relay[i].pc = "recv"
    /\ pch[i] /= <<>>
    /\ IF lock["progress"] = Poisoned
       THEN /\ pch' = [pch EXCEPT ![i] = <<>>]
            /\ relay' = [relay EXCEPT ![i].pc = "panicked"]
            /\ UNCHANGED <<lock, progress>>
       ELSE /\ Locked(RelayThread(i), "progress")
            /\ pch' = [pch EXCEPT ![i] = Tail(@)]
            /\ progress' = set_progress(Some(Head(pch[i])))
            /\ relay' = [relay EXCEPT ![i].pc = "forward",
                                      ![i].cur = Some(Head(pch[i]))]
    /\ UNCHANGED <<state, last_result, chan, rxAlive, caller, nspawned,
                   runner, nsent, nevents, resultOf>>

\* loop body: sender.send(notification_type) of the kind it was spawned with
\* (a failed send is fatal to the thread), then break after the sentinel.
relay_forward(i) ==
    /\ relay[i].pc = "forward"
    /\ IF rxAlive
       THEN /\ chan' = Append(chan, Fetch("relay", i))
            /\ relay' = [relay EXCEPT
                            ![i].pc = IF is_done(unwrap(relay[i].cur))
                                      THEN "exited" ELSE "recv",
                            ![i].cur = None,
                            ![i].forwarded = @ + 1]
       ELSE /\ chan' = chan
            /\ relay' = [relay EXCEPT ![i].pc = "panicked", ![i].cur = None]
    /\ pch' = IF rxAlive THEN pch ELSE [pch EXCEPT ![i] = <<>>]
    /\ UNCHANGED <<lock, shared, rxAlive, caller, nspawned, runner, nsent, nevents,
                   resultOf>>

\* ------------------------------------------------------------------ specification
\* steps of the spawned threads and their receiver threads
ThreadStep ==
    \E i \in Cycles :
          \/ threaded_fetch_start(i)
          \/ fetch_progress(i)
          \/ \E res \in FetchResults : fetch_return(i, res)
          \/ threaded_fetch_send_done(i)
          \/ threaded_fetch_join(i)
          \/ threaded_fetch_set_result(i)
          \/ threaded_fetch_clear(i)
          \/ closure_err_clear(i)
          \/ closure_notify(i)
          \/ relay_recv(i)
          \/ relay_forward(i)

Next ==
    \/ \E params \in FetchRequests : request_check(params)
    \/ request_install
    \/ request_reset_progress
    \/ request_spawn
    \/ recv_notification
    \/ poll_is_pending
    \/ poll_last_result
    \/ drop_receiver
    \/ ThreadStep

Spec == Init /\ [][Next]_vars

\* Every thread that can take a step is scheduled, the external fetch call
\* returns, and a request() call that has started runs to its return.  The
\* caller is free never to call request(), never to receive and to keep its
\* Receiver.
Fairness ==
    /\ WF_vars(request_install)
    /\ WF_vars(request_reset_progress)
    /\ WF_vars(request_spawn)
    /\ \A i \in Cycles :
          /\ WF_vars(threaded_fetch_start(i))
          /\ WF_vars(\E res \in FetchResults : fetch_return(i, res))
          /\ WF_vars(threaded_fetch_send_done(i))
          /\ WF_vars(threaded_fetch_join(i))
          /\ WF_vars(threaded_fetch_set_result(i))
          /\ WF_vars(threaded_fetch_clear(i))
          /\ WF_vars(closure_err_clear(i))
          /\ WF_vars(closure_notify(i))
          /\ WF_vars(relay_recv(i))
          /\ WF_vars(relay_forward(i))

\* The specification for what the threads eventually do: the caller calls
\* request() and may drop its Receiver; its receiving and polling, which
\* only read the shared state and take from the channel, are left out.
NextRequests ==
    \/ \E params \in FetchRequests : request_check(params)
    \/ request_install
    \/ request_reset_progress
    \/ request_spawn
    \/ drop_receiver
    \/ ThreadStep

FairSpec == Init /\ [][NextRequests]_vars /\ Fairness

\* A second caller's request(), run from its is_pending() check to its return
\* while this caller is between its own check and its set_request: the race
\* set_request guards against.
racing_request(params) ==
    /\ caller.pc = "set_request"
    /\ lock["state"] = Free /\ lock["progress"] = Free
    /\ ~is_pending
    /\ state' = set_request(state, params).state
    /\ progress' = set_progress(None)
    /\ nspawned' = nspawned + 1
    /\ runner' = [runner EXCEPT ![nspawned + 1] =
                     [InitRunner EXCEPT !.pc = "start",
                                        !.params = Some(params)]]
    /\ UNCHANGED <<lock, last_result, chan, rxAlive, caller, relay, pch,
                   nsent, nevents, resultOf>>

NextRace ==
    \/ NextRequests
    \/ \E params \in FetchRequests : racing_request(params)

\* The specification with two callers racing on request()
RaceSpec == Init /\ [][NextRace]_vars

\* The Mutex the next step of a thread locks, "none" when it locks none.  The
\* receiver thread locks progress once recv() has handed it an event.
caller_locks ==
    CASE caller.pc \in {"set_request", "poll_pending"} -> "state"
      [] caller.pc = "set_progress" -> "progress"
      [] caller.pc = "poll_result" -> "last_result"
      [] OTHER -> "none"

runner_locks(i) ==
    CASE runner[i].pc = "set_result" -> "last_result"
      [] runner[i].pc \in {"clear", "err_clear"} -> "state"
      [] OTHER -> "none"

relay_locks(i) ==
    IF relay[i].pc = "recv" /\ pch[i] /= <<>> THEN "progress" ELSE "none"

Threads ==
    {CallerThread} \cup {RunnerThread(i) : i \in Cycles}
                   \cup {RelayThread(i) : i \in Cycles}

NextLock(t) ==
    CASE t = CallerThread -> caller_locks
      [] t[1] = "runner" -> runner_locks(t[2])
      [] OTHER -> relay_locks(t[2])

\* mutex.lock() returns to thread t: t holds the guard from here to the end
\* of the function body it is in, which is its next step.
lock_acquire(t) ==
    /\ NextLock(t) /= "none"
    /\ lock[NextLock(t)] = Free
    /\ lock' = [lock EXCEPT ![NextLock(t)] = t]
    /\ UNCHANGED <<shared, chan, rxAlive, caller, nspawned, threads, nsent,
                   nevents, resultOf>>

\* The caller polls is_pending() and last_result() whenever it likes, not
\* only after a notification.
poll_start ==
    /\ caller.pc = "idle"
    /\ caller' = [caller EXCEPT !.pc = "poll_pending"]
    /\ UNCHANGED <<lock, shared, chan, rxAlive, nspawned, threads, nsent,
                   nevents, resultOf>>

NextLocks ==
    \/ NextRequests
    \/ poll_start
    \/ poll_is_pending
    \/ poll_last_result
    \/ \E t \in Threads : lock_acquire(t)

\* The specification in which taking a lock and the access under it are
\* separate steps, so that threads wait for each other's guards
LockSpec == Init /\ [][NextLocks]_vars

\* A thread panics while it holds the guard of the progress Mutex, which
\* poisons the Mutex.
poison_progress ==
    /\ lock["progress"] = Free
    /\ lock' = [lock EXCEPT !["progress"] = Poisoned]
    /\ UNCHANGED <<shared, chan, rxAlive, caller, nspawned, threads, nsent,
                   nevents, resultOf>>

NextPoison ==
    \/ NextRequests
    \/ poison_progress

\* The specification in which the progress lock may become unavailable
PoisonSpec == Init /\ [][NextPoison]_vars

TypeOK ==
    /\ state \in {None} \cup {Some(FetchState(p)) : p \in FetchRequests}
    /\ last_result \in {None} \cup {set_result(r) : r \in FetchResults}
    /\ rxAlive \in BOOLEAN
    /\ nspawned \in 0..MaxCycles

\* ------------------------------------------------------------------ vocabulary
\* thread i has been spawned and has not yet cleared FetchState
InFlight(i) ==
    runner[i].pc \in {"start", "fetch", "send_done", "join", "set_result",
                      "clear", "err_clear"}

\* thread i has been spawned and has not ended
Running(i) == InFlight(i) \/ runner[i].pc = "notify"

\* thread i has ended after a successful completion send
Finished(i) == runner[i].pc = "done"

\* request() is between a successful set_request and thread::spawn
Installing == caller.pc \in {"set_progress", "spawn"}

RECURSIVE SumForwarded(_)
SumForwarded(n) ==
    IF n = 0 THEN 0 ELSE relay[n].forwarded + SumForwarded(n - 1)

\* Fetch notifications put on the notification channel so far, whoever sent
\* them
FetchPut == nsent + SumForwarded(MaxCycles)

\* ------------------------------------------------------------------ C1
\* C1: at most one spawned thread has not yet cleared FetchState, whatever
\* the interleaving of request() calls and thread steps.
C1_SingleFlight == Cardinality({i \in Cycles : InFlight(i)}) <= 1

\* a second thread is in flight while the first, having cleared FetchState,
\* has not ended yet
C1_Witness == runner[1].pc = "notify" /\ runner[2].pc = "fetch"

\* ------------------------------------------------------------------ C2
\* C2: a request() call issued while a FetchState is installed returns Ok
\* at once and changes nothing: no thread is spawned, nothing is left to be
\* done later, FetchState (and the parameters in it), the progress snapshot
\* and last_result stay as they are and nothing is put on the channel.
C2_PendingRequestIsNoop ==
    [][ (state /= None /\ \E params \in FetchRequests : request_check(params))
        => /\ caller'.pc = "idle"
           /\ caller'.ret = "Ok"
           /\ caller'.params = None
           /\ UNCHANGED <<state, last_result, progress, chan, nspawned,
                          runner, relay, pch, nsent>> ]_vars

\* request() has returned from the early exit while the fetch of the
\* accepted request is running
C2_Witness ==
    /\ caller.pc = "idle" /\ caller.effect = "noop" /\ caller.ret = "Ok"
    /\ runner[1].pc = "fetch"
    /\ state /= None

\* ------------------------------------------------------------------ C3
\* C3 as claimed: whenever a thread is about to send its completion
\* notification, it has written its outcome to last_result and has cleared
\* FetchState, on every path.
C3_NotifyAfterResultAndClear ==
    \A i \in Cycles :
        runner[i].pc = "notify" => runner[i].wrote /\ runner[i].cleared

\* C3 as amended: whenever a thread is about to send its completion
\* notification it has cleared FetchState, on every path; when threaded_fetch
\* returned Ok (the fetch succeeded or failed) it has also written the outcome
\* of the fetch to last_result before; when threaded_fetch returned Err (the
\* sentinel send or the join failed) last_result was not written by it.
C3_NotifyAfterClear ==
    \A i \in Cycles :
        runner[i].pc = "notify" =>
            /\ runner[i].cleared
            /\ runner[i].tf \in {"Ok", "Err"}
            /\ runner[i].tf = "Ok" =>
                  /\ runner[i].wrote
                  /\ resultOf >= i
                  /\ resultOf = i =>
                        last_result = set_result(unwrap(runner[i].res))
            /\ runner[i].tf = "Err" => ~runner[i].wrote /\ resultOf /= i
            /\ (i = nspawned /\ ~Installing) => state = None

\* one thread is at its send after a failed fetch whose outcome it stored,
\* another is at its send after an internal error
C3_Witness ==
    /\ runner[1].pc = "notify" /\ runner[1].tf = "Ok"
    /\ ~unwrap(runner[1].res).ok
    /\ runner[2].pc = "notify" /\ runner[2].tf = "Err"

C6_StateIffRunning ==
    (state /= None) <=> (\E i \in Cycles : Running(i))

\* C6 as amended: FetchState is present exactly when either a spawned thread
\* has not yet cleared it, and then it holds the parameters of that thread,
\* or request() has installed it and has not yet spawned the thread.  A
\* thread that has cleared FetchState keeps running until its completion
\* send, whether FetchState is absent or installed again by then.
C6_StateIffInFlightOrInstalling ==
    /\ (state /= None) <=> (Installing \/ \E i \in Cycles : InFlight(i))
    /\ \A i \in Cycles :
          InFlight(i) => state = Some(FetchState(unwrap(runner[i].params)))
    /\ Installing => /\ state = Some(FetchState(unwrap(caller.params)))
                     /\ \A i \in Cycles : ~InFlight(i)

\* FetchState is installed for the second request, whose thread is not yet
\* spawned, while the first thread is still running
C6_Witness ==
    /\ caller.pc = "spawn"
    /\ state /= None
    /\ runner[1].pc = "notify"
    /\ runner[2].pc = "unspawned"

\* ------------------------------------------------------------------ C7
\* C7: the outcome a cycle stores is (bytes, "") when the fetch returned
\* Ok(bytes) and (0, text of the error) when it returned Err; request()
\* returned Ok for the accepted request in both cases, and FetchState is
\* absent once the thread has passed its clear.
C7_StoredOutcome ==
    /\ \A i \in Cycles :
          (runner[i].wrote /\ resultOf = i) =>
              LET res == unwrap(runner[i].res)
              IN /\ res.ok => last_result = Some(<<res.bytes, "">>)
                 /\ ~res.ok =>
                       last_result = Some(<<0, to_string(res.err)>>)
                 /\ res = Ok(1500) => last_result = Some(<<1500, "">>)
                 /\ res = Err("Auth") =>
                       last_result = Some(<<0, "auth failed">>)
    /\ caller.effect = "started" => caller.ret = "Ok"
    /\ caller.ret /= "Err"
    /\ \A i \in Cycles :
          (runner[i].pc = "notify" /\ i = nspawned /\ ~Installing)
              => state = None

\* the fetch failed, its outcome is stored, FetchState is cleared and the
\* request() that started the cycle had returned Ok
C7_Witness ==
    /\ runner[1].pc = "notify" /\ runner[1].wrote
    /\ runner[1].res = Some(Err("Auth"))
    /\ last_result = Some(<<0, "auth failed">>)
    /\ state = None
    /\ caller.effect = "started" /\ caller.ret = "Ok"

\* ------------------------------------------------------------------ C8
\* the receiver thread of cycle i has applied no event yet
AppliedNone(i) ==
    relay[i].pc \in {"unspawned", "recv"} /\ relay[i].forwarded = 0

\* C8: once request() has reset the snapshot for an accepted request, the
\* snapshot is none until the receiver thread of that request applies its
\* first event, and every value it holds afterwards is an event of that
\* request; the receiver threads of earlier requests have ended.
C8_ProgressNoneUntilFirstEvent ==
    /\ caller.pc = "spawn" => progress = None
    /\ (nspawned >= 1 /\ caller.pc /= "spawn") =>
          /\ AppliedNone(nspawned) => progress = None
          /\ (progress /= None /\ caller.pc /= "set_progress")
                => unwrap(progress).cycle = nspawned
    /\ \A i \in Cycles :
          (i < nspawned \/ (i = nspawned /\ Installing))
              => relay[i].pc \in {"exited", "panicked"}

\* the second request has been accepted after a first cycle that left a
\* snapshot, and its receiver thread is waiting for its first event
C8_Witness ==
    /\ nspawned = 2
    /\ runner[1].pc = "notify"
    /\ relay[1].forwarded = 2
    /\ runner[2].pc = "fetch" /\ relay[2].pc = "recv" /\ relay[2].forwarded = 0
    /\ progress = None

\* ------------------------------------------------------------------ C9
\* C9: every write of last_result is the set_result step of a thread that
\* finds FetchState installed with the parameters of its own request, and
\* stores the outcome of that thread's fetch; a request() made in between
\* changes neither.
C9_ResultWrittenByOwner ==
    [][ (last_result' /= last_result \/ resultOf' /= resultOf) =>
           \E i \in Cycles :
              /\ runner[i].pc = "set_result" /\ runner'[i].pc = "clear"
              /\ state = Some(FetchState(unwrap(runner[i].params)))
              /\ state' = state
              /\ resultOf' = i
              /\ last_result' = set_result(unwrap(runner[i].res)) ]_vars

\* a second request() was made while the first was in flight, and the thread
\* of the first has just written last_result
C9_Witness ==
    /\ caller.effect = "noop"
    /\ nspawned = 1
    /\ runner[1].pc = "clear"
    /\ resultOf = 1
    /\ state = Some(FetchState(unwrap(runner[1].params)))

\* ------------------------------------------------------------------ C10
\* the caller is polling after a notification of cycle nspawned, so no
\* request has been accepted since the request of that cycle
PollingLatest ==
    /\ caller.pc \in {"poll_pending", "poll_result"}
    /\ unwrap(caller.got).kind = "Fetch"
    /\ unwrap(caller.got).cycle = nspawned

\* C10 as claimed: after any notification of the Fetch kind the caller's
\* polls return is_pending() = false and the outcome of that cycle.
C10_AnyFetchMeansTerminal ==
    PollingLatest =>
        /\ state = None
        /\ caller.pc = "poll_result" => resultOf = nspawned

\* C10 as amended: after the notification sent by the closure of a cycle the
\* caller's polls return is_pending() = false and the outcome of that cycle.
\* (The notifications the receiver thread forwards are of the same kind and
\* arrive while FetchState is installed and last_result is not written.)
C10_ClosureFetchMeansTerminal ==
    (PollingLatest /\ unwrap(caller.got).from = "closure") =>
        /\ state = None
        /\ last_result /= None
        /\ resultOf = nspawned

\* the caller polls last_result() after the closure's notification of the
\* second cycle
C10_Witness ==
    /\ PollingLatest
    /\ caller.pc = "poll_result"
    /\ unwrap(caller.got).from = "closure"
    /\ nspawned = 2

\* ------------------------------------------------------------------ C11
\* C11: when set_request runs with a FetchState already installed, request()
\* returns the "pending request" error: the installed FetchState stays as it
\* is, progress is not reset and no thread is spawned.
C11_BusyInstallFails ==
    [][(caller.pc = "set_request" /\ caller'.pc /= "set_request"
          /\ is_some(state))
       => /\ caller'.pc = "idle"
          /\ caller'.ret = "Err" /\ caller'.effect = "busy"
          /\ state' = state
          /\ progress' = progress
          /\ last_result' = last_result
          /\ nspawned' = nspawned
          /\ runner' = runner]_vars

\* request() has returned the error; the only thread spawned is the racing
\* caller's, whose FetchState is still installed
C11_Witness ==
    /\ caller.pc = "idle" /\ caller.ret = "Err" /\ caller.effect = "busy"
    /\ is_some(state)
    /\ nspawned = 1 /\ InFlight(1)

\* ------------------------------------------------------------------ C12
\* the locks thread t holds
Held(t) == {l \in Locks : lock[l] = t}

\* C12: no thread holds two of the three locks at the same time; a spawned
\* thread holds none while it is in the external fetch call, in a channel
\* send or in the join, and its receiver thread holds none while it waits on
\* the progress channel or forwards; whoever holds a lock is at the access
\* that ends with the guard dropped, so that nobody waits for a lock forever.
C12_LockDiscipline ==
    /\ \A t \in Threads : Cardinality(Held(t)) <= 1
    /\ \A i \in Cycles :
          /\ runner[i].pc \in {"start", "fetch", "send_done", "join", "notify"}
                => Held(RunnerThread(i)) = {}
          /\ (relay[i].pc = "forward" \/ pch[i] = <<>>)
                => Held(RelayThread(i)) = {}
    /\ caller.pc \in {"idle", "spawn"} => Held(CallerThread) = {}
    /\ \A l \in Locks : lock[l] /= Free => NextLock(lock[l]) = l

\* the caller holds the state lock inside is_pending() and the receiver thread
\* holds the progress lock while the spawned thread is blocked in the join
C12_Witness ==
    /\ runner[1].pc = "join"
    /\ lock["state"] = CallerThread /\ caller.pc = "poll_pending"
    /\ lock["progress"] = RelayThread(1)

\* ------------------------------------------------------------------ C13
\* C13: an installed FetchState is changed by one kind of step only: the
\* clear_request of the thread spawned for the request it holds (the latest
\* one), which removes it.  No step of the caller and no other thread removes
\* or replaces it.
C13_OnlyOwnerClears ==
    [][(is_some(state) /\ state' /= state)
       => /\ state' = None
          /\ caller' = caller
          /\ \E i \in Cycles :
                /\ i = nspawned
                /\ runner[i].pc \in {"clear", "err_clear"}
                /\ runner'[i].pc = "notify"
                /\ runner[i].params = Some(unwrap(state).request)]_vars

\* the second thread has cleared its own FetchState, after a request() made
\* while it was pending and after the first thread's end
C13_Witness ==
    /\ runner[2].pc = "notify" /\ runner[2].cleared
    /\ runner[1].pc = "done"
    /\ caller.effect = "noop"
    /\ state = None

\* ------------------------------------------------------------------ C14
\* C14: last_result is None as long as no thread has stored an outcome and is
\* never None afterwards; it changes only in the set_result step of a
\* spawned thread, which every thread takes at most once, and exactly once
\* when its threaded_fetch returns Ok; no step of the caller changes it, so
\* an accepted request() leaves the previous outcome in place.
C14_ResultFrame ==
    /\ [](resultOf = 0 => last_result = None)
    /\ [](\A i \in Cycles :
            (runner[i].pc = "clear" \/ runner[i].tf = "Ok") => runner[i].wrote)
    /\ [][/\ is_some(last_result) => is_some(last_result')
          /\ caller' /= caller => last_result' = last_result
          /\ (last_result' /= last_result \/ resultOf' /= resultOf)
                => \E i \in Cycles :
                      /\ runner[i].pc = "set_result" /\ ~runner[i].wrote
                      /\ runner'[i].pc = "clear" /\ runner'[i].wrote
                      /\ resultOf' = i
                      /\ last_result' = set_result(unwrap(runner[i].res))]_vars

\* the second request() has been accepted and its thread is about to store
\* its outcome: last_result still holds the outcome of the first cycle
C14_Witness ==
    /\ nspawned = 2 /\ runner[2].pc = "set_result"
    /\ caller.pc = "idle" /\ caller.effect = "started"
    /\ resultOf = 1 /\ is_some(last_result)

\* ------------------------------------------------------------------ C15
\* events the receiver thread of cycle i has taken off its channel and stored
Consumed(i) ==
    relay[i].forwarded
      + (IF relay[i].pc \in {"forward", "panicked"} THEN 1 ELSE 0)

C16_ProgressStableWhenIdle ==
    /\ [](\A i \in Cycles :
            /\ (runner[i].pc \in {"set_result", "clear"} \/ runner[i].tf = "Ok")
                  => relay[i].pc = "exited" /\ pch[i] = <<>>
            /\ runner[i].pc \in {"err_clear", "notify", "done", "panicked"}
                  => relay[i].pc \in {"exited", "panicked"})
    /\ [][progress' /= progress => is_some(state) /\ is_some(state')]_vars

\* the fetch of the first cycle failed; its thread has stored the outcome and
\* cleared FetchState after its receiver thread stored the sentinel and ended
C16_Witness ==
    /\ runner[1].pc = "notify" /\ runner[1].tf = "Ok"
    /\ ~unwrap(runner[1].res).ok
    /\ relay[1].pc = "exited" /\ relay[1].forwarded = 2
    /\ state = None /\ progress = Some(Done(1))

\* ------------------------------------------------------------------ C17
\* C17: a request() call that got past its pending check returns either Ok,
\* with FetchState installed, progress None and one more thread spawned, or
\* an error, with no thread spawned, progress and last_result as they were
\* and FetchState as it was when the call began: as set_request found it when
\* set_request fails, and absent when the progress reset fails.  A call that
\* returns at its pending check changes nothing.
C17_AllOrNothing ==
    [][/\ (caller.pc \in {"set_request", "set_progress", "spawn"}
            /\ caller'.pc = "idle")
          => \/ /\ caller'.ret = "Ok"
                /\ is_some(state') /\ progress' = None
                /\ nspawned' = nspawned + 1
                /\ runner'[nspawned + 1].pc = "start"
             \/ /\ caller'.ret = "Err"
                /\ nspawned' = nspawned /\ runner' = runner
                /\ progress' = progress /\ last_result' = last_result
                /\ state' = IF caller.pc = "set_request" THEN state ELSE None
       /\ (caller.pc = "idle" /\ caller'.pc = "idle" /\ caller' /= caller)
          => /\ caller'.ret = "Ok"
             /\ UNCHANGED <<shared, nspawned, runner>>]_vars

\* request() has returned the lock error: FetchState is installed and no
\* thread has been spawned for it
C17_Witness ==
    /\ caller.pc = "idle" /\ caller.ret = "Err" /\ caller.effect = "lock"
    /\ is_some(state)
    /\ \A i \in Cycles : ~InFlight(i)

\* ------------------------------------------------------------------ C18
\* C18: with the one caller, whenever request() is past its pending check
\* and about to run set_request, FetchState is absent, and no request() call
\* has returned the "pending request" error of set_request.
C18_BusyBranchUnreachable ==
    /\ caller.pc = "set_request" => ~is_some(state)
    /\ caller.effect /= "busy"

\* request() has passed its pending check for the second cycle while the
\* thread of the first, having cleared FetchState, is still running
C18_Witness ==
    /\ caller.pc = "set_request"
    /\ nspawned = 1 /\ runner[1].pc = "notify" /\ runner[1].cleared
    /\ state = None
====
